---- MODULE Spec2Model ----
(***************************************************************************)
(* Model of the HealthClock component (src/app/page.tsx): the work/rest    *)
(* phase timer, the expiry effect that opens the reminder dialog, and the  *)
(* deferred playNextReminder loop with its closure-captured values.        *)
(*                                                                         *)
(* One action is one event delivered to the component (a button handler,   *)
(* an input's onChange, the one-second interval callback, a deferred       *)
(* reminder callback) together with the renders and effects it causes.     *)
(* Spec takes the events the rendered page offers; SpecCommands also       *)
(* issues the handlers in states where the page does not offer them.       *)
(*                                                                         *)
(* Deferred callbacks are kept in the order of their deadlines.  Every     *)
(* deferral in the component is either 15000 ms or 0 ms long, and no two   *)
(* events happen at the same instant, so a new 15000 ms deferral is always *)
(* the latest deadline and a new 0 ms deferral always the earliest: the    *)
(* callbacks run in queue order.  How many clock ticks fit between two     *)
(* callbacks is left open (the user can pause and resume the clock).       *)
(***************************************************************************)
EXTENDS Integers, Sequences, FiniteSets, TLC

(* ---------- bounds of the model ---------- *)
MaxDuration == 2
MaxReminders == 3
MaxEdits == 1
MaxConvertDuration == 4

(* ---------- program constants ---------- *)
SecondsPerHour == 3600
SecondsPerMinute == 60
DefaultWorkDuration == 25
DefaultRestDuration == 5
DefaultReminders == 3

TimerStates == {"idle", "working", "resting"}
TimeUnits == {"hours", "minutes", "seconds"}
DialogTypes == {"work", "rest"}

(* values the number inputs, the sliders and the unit selects deliver here: a
   negative, a zero and a positive duration; no repeat and several repeats *)
DurationInputs == {-1, 0, MaxDuration}
ReminderInputs == {1, MaxReminders}
UnitInputs == {"seconds"}

VARIABLES
  settings,       \* useState<TimerSettings>
  timerState,     \* useState<TimerState>
  timeLeft,       \* useState(0)
  isRunning,      \* useState(false)
  showDialog,     \* useState(false)
  dialogType,     \* useState<"work" | "rest">
  reminderCount,  \* useState(0)
  showSettings,   \* useState(true)
  intervalRef,    \* TRUE while the one-second interval is armed
  chains,         \* pending playNextReminder closures, earliest deadline first
  maxReminders,   \* limit captured by the latest run of the expiry effect
  fired,          \* history: notifications played for the current reminder
  entries,        \* history: runs of the expiry effect since the phase was armed
  lastNote,       \* history: the latest notification played
  last,           \* history: the latest event and whether the dialog was open before it
  edits           \* history: settings mutations so far

vars == <<settings, timerState, timeLeft, isRunning, showDialog, dialogType,
          reminderCount, showSettings, intervalRef, chains, maxReminders,
          fired, entries, lastNote, last, edits>>

NoNote == [kind |-> "none", live |-> TRUE]

(* ---------- pure helpers ---------- *)
convertToSeconds_HoursAsMinutes(duration, unit) ==
  CASE unit = "hours" -> duration * SecondsPerMinute
    [] unit = "minutes" -> duration * SecondsPerMinute
    [] unit = "seconds" -> duration
    [] OTHER -> duration

convertToSeconds(duration, unit) ==
  CASE unit = "hours" -> duration * SecondsPerHour
    [] unit = "minutes" -> duration * SecondsPerMinute
    [] unit = "seconds" -> duration
    [] OTHER -> duration

workSeconds(s) == convertToSeconds(s.workDuration, s.workUnit)
restSeconds(s) == convertToSeconds(s.restDuration, s.restUnit)

playReminder_AlwaysWorkEnd(ts) == "work"

(* playReminder: the cue is chosen by the timerState the closure was built with *)
playReminder(ts) == IF ts = "working" THEN "work" ELSE "rest"

(* the React state of one render, as a record *)
Render ==
  [settings |-> settings, timerState |-> timerState, timeLeft |-> timeLeft,
   isRunning |-> isRunning, showDialog |-> showDialog, dialogType |-> dialogType,
   reminderCount |-> reminderCount, showSettings |-> showSettings]

(* ---------- deferred reminder callbacks ---------- *)
(* clearInterval(reminderIntervalRef.current): only the timer whose id the ref
   holds is cancelled; a closure waiting on its inner promise is not a timer *)
ClearRef(chs) == SelectSeq(chs, LAMBDA c : ~c.ref)

(* reminderIntervalRef.current = <new id>: the ref forgets the previous timer *)
Unref(chs) == [i \in 1 .. Len(chs) |-> [chs[i] EXCEPT !.ref = FALSE]]

(* history only: the reminder these closures belong to has been cancelled; a
   closure that captured showDialog = false plays nothing and is not marked *)
Stale(chs) == [i \in 1 .. Len(chs) |-> [chs[i] EXCEPT !.live = ~chs[i].showDialog]]


(* ---------- effects ---------- *)
(* main timer effect, deps [isRunning, timeLeft] *)
IntervalArmed(r) == r.isRunning /\ r.timeLeft > 0

(* expiry effect, deps [timeLeft, timerState, settings]: does it run, and does
   its condition hold, in the render r that follows the render p *)
ExpiryDeps_TimeLeftOnly(p, r, touched) ==
  p.timeLeft # r.timeLeft \/ touched

ExpiryDeps(p, r, touched) ==
  p.timeLeft # r.timeLeft \/ p.timerState # r.timerState \/ touched

ExpiryRuns(p, r, touched) ==
  ExpiryDeps(p, r, touched) /\ r.timeLeft = 0 /\ r.timerState # "idle"

CapturedLimit(r) ==
  IF r.timerState = "working" THEN r.settings.workReminders
                              ELSE r.settings.restReminders

(* the closure playNextReminder built by one run of the expiry effect.  Every
   read of maxReminders and every call of playReminder in it sits behind a test
   of the captured showDialog, so a closure that captured showDialog = false is
   recorded without them: its callback returns at once. *)
NewChain(r) ==
  IF r.showDialog
    THEN [stage |-> "timer", currentCount |-> 0,
          maxReminders |-> CapturedLimit(r), showDialog |-> TRUE,
          timerState |-> r.timerState, ref |-> TRUE, live |-> TRUE]
    ELSE [stage |-> "timer", currentCount |-> 0,
          maxReminders |-> 0, showDialog |-> FALSE,
          timerState |-> "idle", ref |-> TRUE, live |-> TRUE]

(* showDialog effect, deps [showDialog] *)
DialogEffectClears(p, r) == p.showDialog # r.showDialog /\ ~r.showDialog

(* Commit: the render r produced by a handler replaces the render p; the
   effects whose deps changed run in declaration order, and the state they set
   gives the final render.  chs is the list of pending closures the handler
   left; arm says whether the handler armed a phase or reset the session,
   cancel whether it cancelled the reminder (both for the history variables
   only). *)
Commit(p, r, chs, touched, arm, cancel, op) ==
  LET entry == ExpiryRuns(p, r, touched)
      r2 == IF entry
              THEN [r EXCEPT !.isRunning = FALSE,
                             !.dialogType = IF r.timerState = "working" THEN "work" ELSE "rest",
                             !.showDialog = TRUE,
                             !.reminderCount = 0]
              ELSE r
      chs1 == IF entry /\ CapturedLimit(r) > 1 THEN Append(Unref(chs), NewChain(r)) ELSE chs
      chs2 == IF DialogEffectClears(p, r) THEN ClearRef(chs1) ELSE chs1
  IN /\ settings' = r2.settings
     /\ timerState' = r2.timerState
     /\ timeLeft' = r2.timeLeft
     /\ isRunning' = r2.isRunning
     /\ showDialog' = r2.showDialog
     /\ dialogType' = r2.dialogType
     /\ reminderCount' = r2.reminderCount
     /\ showSettings' = r2.showSettings
     /\ intervalRef' = IntervalArmed(r2)
     /\ chains' = chs2
     /\ maxReminders' = IF entry THEN CapturedLimit(r) ELSE maxReminders
     /\ fired' = IF entry THEN 1 ELSE IF cancel THEN 0 ELSE fired
     /\ entries' = (IF arm THEN 0 ELSE entries) + (IF entry THEN 1 ELSE 0)
     /\ lastNote' = IF entry
                      THEN [kind |-> playReminder(r.timerState), live |-> TRUE]
                      ELSE lastNote
     /\ last' = [op |-> op, active |-> p.showDialog]

(* ---------- initial state ---------- *)
(* the mounted component, idle, with the settings as the load effect and the
   settings panel left them before the first start *)
SettingsInputs ==
  [workDuration : DurationInputs, workUnit : UnitInputs,
   restDuration : DurationInputs, restUnit : UnitInputs,
   workReminders : ReminderInputs, restReminders : ReminderInputs]

Init ==
  /\ settings \in SettingsInputs
  /\ timerState = "idle"
  /\ timeLeft = 0
  /\ isRunning = FALSE
  /\ showDialog = FALSE
  /\ dialogType = "work"
  /\ reminderCount = 0
  /\ showSettings = TRUE
  /\ intervalRef = FALSE
  /\ chains = << >>
  /\ maxReminders = 0
  /\ fired = 0
  /\ entries = 0
  /\ lastNote = NoNote
  /\ last = [op |-> "init", active |-> FALSE]
  /\ edits = 0

(* ---------- handlers ---------- *)
startTimer ==
  LET r == IF timerState = "idle"
             THEN [Render EXCEPT !.timeLeft = workSeconds(settings),
                                 !.timerState = "working",
                                 !.showSettings = FALSE,
                                 !.isRunning = TRUE]
             ELSE [Render EXCEPT !.isRunning = TRUE]
  IN /\ Commit(Render, r, chains, FALSE, timerState = "idle", FALSE, "start")
     /\ UNCHANGED edits

pauseTimer_StopsSession ==
  /\ Commit(Render, [Render EXCEPT !.isRunning = FALSE, !.timerState = "idle", !.timeLeft = 0],
            chains, FALSE, FALSE, FALSE, "pause")
  /\ UNCHANGED edits

pauseTimer ==
  /\ Commit(Render, [Render EXCEPT !.isRunning = FALSE], chains, FALSE, FALSE, FALSE, "pause")
  /\ UNCHANGED edits

resetTimer ==
  LET r == [Render EXCEPT !.isRunning = FALSE, !.timerState = "idle", !.timeLeft = 0,
                          !.showDialog = FALSE, !.reminderCount = 0,
                          !.showSettings = TRUE]
  IN /\ Commit(Render, r, Stale(ClearRef(chains)), FALSE, TRUE, TRUE, "reset")
     /\ UNCHANGED edits

AckRender_NoAutoStart(p) ==
  IF p.dialogType = "work"
    THEN [p EXCEPT !.showDialog = FALSE, !.reminderCount = 0,
                   !.timeLeft = restSeconds(p.settings), !.timerState = "resting"]
    ELSE [p EXCEPT !.showDialog = FALSE, !.reminderCount = 0,
                   !.timeLeft = workSeconds(p.settings), !.timerState = "working"]

AckRender(p) ==
  IF p.dialogType = "work"
    THEN [p EXCEPT !.showDialog = FALSE, !.reminderCount = 0,
                   !.timeLeft = restSeconds(p.settings), !.timerState = "resting",
                   !.isRunning = TRUE]
    ELSE [p EXCEPT !.showDialog = FALSE, !.reminderCount = 0,
                   !.timeLeft = workSeconds(p.settings), !.timerState = "working",
                   !.isRunning = TRUE]

handleDialogAction ==
  /\ Commit(Render, AckRender(Render), Stale(ClearRef(chains)), FALSE, TRUE, TRUE, "acknowledge")
  /\ UNCHANGED edits

handleDialogClose ==
  LET r == [Render EXCEPT !.showDialog = FALSE, !.reminderCount = 0, !.isRunning = FALSE]
  IN /\ Commit(Render, r, Stale(ClearRef(chains)), FALSE, FALSE, TRUE, "dismiss")
     /\ UNCHANGED edits

toggleSettings ==
  /\ Commit(Render, [Render EXCEPT !.showSettings = ~showSettings], chains, FALSE, FALSE, FALSE, "toggle")
  /\ UNCHANGED edits

(* the settings panel's inputs; every onChange stores a new settings object *)
setSettings ==
  /\ showSettings
  /\ edits < MaxEdits
  /\ \E s \in { [settings EXCEPT !.workDuration = d] : d \in DurationInputs }
          \cup { [settings EXCEPT !.restDuration = d] : d \in DurationInputs }
          \cup { [settings EXCEPT !.workUnit = u] : u \in UnitInputs }
          \cup { [settings EXCEPT !.restUnit = u] : u \in UnitInputs }
          \cup { [settings EXCEPT !.workReminders = n] : n \in ReminderInputs }
          \cup { [settings EXCEPT !.restReminders = n] : n \in ReminderInputs } :
        Commit(Render, [Render EXCEPT !.settings = s], chains, TRUE, FALSE, FALSE, "settings")
  /\ edits' = edits + 1

(* ---------- timers ---------- *)
(* the interval callback: setTimeLeft(prev => prev - 1) *)
Tick ==
  /\ intervalRef
  /\ Commit(Render, [Render EXCEPT !.timeLeft = @ - 1], chains, FALSE, FALSE, FALSE, "tick")
  /\ UNCHANGED edits

(* the earliest timer of the queue runs playNextReminder; if the closure goes
   on, it starts its 15000 ms wait, which is now the latest deadline *)
playNextReminder ==
  /\ chains # << >>
  /\ Head(chains).stage = "timer"
  /\ LET c == Head(chains) IN
       IF c.currentCount < c.maxReminders - 1 /\ c.showDialog
         THEN /\ chains' = Append(Tail(chains), [c EXCEPT !.stage = "wait",
                                                          !.currentCount = @ + 1,
                                                          !.ref = FALSE])
              /\ reminderCount' = c.currentCount + 1
         ELSE /\ chains' = Tail(chains)
              /\ UNCHANGED reminderCount
  /\ last' = [op |-> "recheck", active |-> showDialog]
  /\ UNCHANGED <<settings, timerState, timeLeft, isRunning, showDialog, dialogType,
                 showSettings, intervalRef, maxReminders, fired, entries, lastNote, edits>>

(* the 15000 ms wait inside playNextReminder is over: the closure plays the
   cue and, if repeats remain, re-arms itself with a 0 ms timer, which is the
   earliest deadline *)
resumeNextReminder ==
  /\ chains # << >>
  /\ Head(chains).stage = "wait"
  /\ LET c == Head(chains) IN
       IF c.showDialog
         THEN /\ lastNote' = [kind |-> playReminder(c.timerState), live |-> c.live]
              /\ fired' = IF c.live THEN fired + 1 ELSE fired
              /\ chains' = IF c.currentCount < c.maxReminders - 1
                             THEN <<[c EXCEPT !.stage = "timer", !.ref = TRUE]>>
                                    \o Unref(Tail(chains))
                             ELSE Tail(chains)
         ELSE /\ chains' = Tail(chains)
              /\ UNCHANGED <<lastNote, fired>>
  /\ last' = [op |-> "repeat", active |-> showDialog]
  /\ UNCHANGED <<settings, timerState, timeLeft, isRunning, showDialog, dialogType,
                 reminderCount, showSettings, intervalRef, maxReminders, entries, edits>>

(* the events the rendered page can deliver: the play button is rendered while
   not running and the pause button while running, the dialog's button and its
   close request exist while the dialog is open, the settings inputs while the
   settings panel is shown *)
PlayButton == ~isRunning /\ startTimer

PauseButton == isRunning /\ pauseTimer

DialogButton == showDialog /\ handleDialogAction

DialogOpenChange == showDialog /\ handleDialogClose

Next ==
  \/ PlayButton
  \/ PauseButton
  \/ resetTimer
  \/ DialogButton
  \/ DialogOpenChange
  \/ toggleSettings
  \/ setSettings
  \/ Tick
  \/ playNextReminder
  \/ resumeNextReminder

Spec == Init /\ [][Next]_vars

(* the handlers taken as commands that may be issued in any state *)
NextCommands ==
  \/ Next
  \/ startTimer
  \/ pauseTimer
  \/ handleDialogAction
  \/ handleDialogClose

SpecCommands == Init /\ [][NextCommands]_vars

TypeOK ==
  /\ settings \in SettingsInputs
  /\ timerState \in TimerStates
  /\ timeLeft \in Int
  /\ isRunning \in BOOLEAN
  /\ showDialog \in BOOLEAN
  /\ dialogType \in DialogTypes
  /\ reminderCount \in Nat
  /\ showSettings \in BOOLEAN
  /\ intervalRef \in BOOLEAN

(* ======================= claims ======================= *)

(* a deferred callback that can still write state or play a cue *)
CanAct(c) == c.showDialog

(* C1: when a phase has expired and the reminder has not been acknowledged,
   dismissed or reset, exactly N notifications are played for it, N being the
   limit captured at the expiry: once every pending re-check has run, the
   count stands at N. *)
C1_ExactlyLimitNotifications ==
  (showDialog /\ chains = << >>) => fired = maxReminders

(* C2: no notification is ever played by a closure whose reminder has been
   cancelled by acknowledge, dismiss or reset. *)
C2_NoNotificationAfterCancel ==
  lastNote.live

(* C3 (as claimed): acknowledge while working (resting) with the reminder
   active moves to resting (working) with timeLeft equal to the rest (work)
   duration in seconds, running, and the reminder inactive. *)
C3_AcknowledgeArmsNextPhase ==
  [][ /\ (handleDialogAction /\ showDialog /\ timerState = "working")
          => /\ timerState' = "resting"
             /\ timeLeft' = restSeconds(settings)
             /\ isRunning'
             /\ ~showDialog'
      /\ (handleDialogAction /\ showDialog /\ timerState = "resting")
          => /\ timerState' = "working"
             /\ timeLeft' = workSeconds(settings)
             /\ isRunning'
             /\ ~showDialog' ]_vars

(* C3 (amended): acknowledge while working (resting) with the reminder active
   moves to resting (working) with timeLeft equal to the rest (work) duration
   in seconds; if that duration is not 0 the session is running and the
   reminder inactive, and if it is 0 the new phase has expired at once: the
   reminder is active for the new phase and the session is not running. *)
C3_AcknowledgeArmsOrExpires ==
  [][ /\ (handleDialogAction /\ showDialog /\ timerState = "working")
          => /\ timerState' = "resting"
             /\ timeLeft' = restSeconds(settings)
             /\ isRunning' = (restSeconds(settings) # 0)
             /\ showDialog' = (restSeconds(settings) = 0)
             /\ reminderCount' = 0
             /\ showDialog' => dialogType' = "rest"
      /\ (handleDialogAction /\ showDialog /\ timerState = "resting")
          => /\ timerState' = "working"
             /\ timeLeft' = workSeconds(settings)
             /\ isRunning' = (workSeconds(settings) # 0)
             /\ showDialog' = (workSeconds(settings) = 0)
             /\ reminderCount' = 0
             /\ showDialog' => dialogType' = "work" ]_vars

C3_Witness ==
  /\ last = [op |-> "acknowledge", active |-> TRUE]
  /\ timerState = "resting"
  /\ lastNote.kind = "work"
  /\ timeLeft = restSeconds(settings)
  /\ timeLeft > 0
  /\ isRunning
  /\ ~showDialog

(* C4: dismiss while the reminder is active keeps the phase, stops the clock,
   leaves timeLeft = 0 and closes the reminder; from then on the reminder
   opens again only when another phase expires. *)
C4_DismissKeepsClosed ==
  [][ /\ (handleDialogClose /\ showDialog)
          => /\ timerState' = timerState
             /\ ~isRunning'
             /\ timeLeft' = 0
             /\ ~showDialog'
      /\ (~showDialog /\ timerState # "idle" /\ timeLeft = 0 /\ showDialog')
          => timerState' # timerState ]_vars

(* C5: reset leads to idle, timeLeft = 0, not running, reminder closed with
   attempt 0, no interval armed, and no pending re-check that can still write
   state or play a cue. *)
C5_ResetClearsEverything ==
  [][ resetTimer
        => /\ timerState' = "idle"
           /\ timeLeft' = 0
           /\ ~isRunning'
           /\ ~showDialog'
           /\ reminderCount' = 0
           /\ ~intervalRef'
           /\ \A i \in 1 .. Len(chains') : ~CanAct(chains'[i]) ]_vars

(* C6: acknowledge and dismiss while no reminder is active, and pause while
   idle, change nothing of the session. *)
C6_InapplicableCommandIsNoOp ==
  [][ ( \/ (handleDialogAction /\ ~showDialog)
        \/ (handleDialogClose /\ ~showDialog)
        \/ (pauseTimer /\ timerState = "idle") )
        => UNCHANGED <<timerState, timeLeft, isRunning, showDialog, reminderCount>> ]_vars

(* C7: the tick that takes a working phase from timeLeft = 1 to 0 opens the
   reminder with one notification, and the expiry of one armed phase is
   signalled at most once before the next acknowledge or reset. *)
C7_ExpirySignalledOnce ==
  [][ /\ (Tick /\ timeLeft = 1 /\ timerState = "working")
          => /\ timeLeft' = 0
             /\ timerState' = "working"
             /\ showDialog'
             /\ entries' = 1
             /\ fired' = 1
      /\ entries' <= 1 ]_vars

(* C8: the session is not running whenever the reminder is active. *)
C8_NotRunningWhileReminderActive ==
  showDialog => ~isRunning

(* C9: a settings mutation while a phase is armed changes only the settings:
   the session, the reminder, the captured limit, the notifications played and
   the pending re-checks stay as they are. *)
C9_SettingsMutationIsIsolated ==
  [][ (setSettings /\ timerState # "idle")
        => UNCHANGED <<timerState, timeLeft, isRunning, showDialog, dialogType,
                       reminderCount, maxReminders, fired, lastNote, chains>> ]_vars

(* C10: arming a phase of 0 seconds - start from idle with a work duration of
   0, or acknowledge into a phase whose duration is 0 - leads in the same step
   to that phase with its reminder active, not running, and the first
   notification of the matching kind played. *)
C10_ZeroLengthPhaseExpiresAtOnce ==
  [][ /\ (startTimer /\ timerState = "idle" /\ workSeconds(settings) = 0)
          => /\ timerState' = "working" /\ timeLeft' = 0
             /\ showDialog' /\ dialogType' = "work" /\ ~isRunning'
             /\ entries' = 1 /\ fired' = 1 /\ lastNote'.kind = "work"
      /\ (handleDialogAction /\ dialogType = "work" /\ restSeconds(settings) = 0)
          => /\ timerState' = "resting" /\ timeLeft' = 0
             /\ showDialog' /\ dialogType' = "rest" /\ ~isRunning'
             /\ entries' = 1 /\ fired' = 1 /\ lastNote'.kind = "rest"
      /\ (handleDialogAction /\ dialogType = "rest" /\ workSeconds(settings) = 0)
          => /\ timerState' = "working" /\ timeLeft' = 0
             /\ showDialog' /\ dialogType' = "work" /\ ~isRunning'
             /\ entries' = 1 /\ fired' = 1 /\ lastNote'.kind = "work" ]_vars

C10_Witness ==
  /\ last = [op |-> "acknowledge", active |-> TRUE]
  /\ timerState = "resting"
  /\ restSeconds(settings) = 0
  /\ timeLeft = 0
  /\ showDialog
  /\ ~isRunning
  /\ entries = 1
  /\ lastNote = [kind |-> "rest", live |-> TRUE]

(* C11: timeLeft is never negative: the interval callback runs only while
   the session is running with timeLeft > 0 and takes exactly 1 off, and no
   event leaves timeLeft below 0, whatever durations the settings inputs
   delivered. *)
C11_TimeLeftNeverNegative ==
  [][ /\ Tick => (isRunning /\ timeLeft > 0 /\ timeLeft' = timeLeft - 1)
      /\ timeLeft' >= 0 ]_vars

(* the reminder has used its whole repeat budget *)
BudgetUsed == showDialog /\ reminderCount = maxReminders - 1

(* C12: once the attempt counter stands at limit - 1 the reminder stays as it
   is - dialog shown, phase unchanged, not running, nothing more played -
   until acknowledge, dismiss or reset. *)
C12_ExhaustedReminderStays ==
  [][ (BudgetUsed /\ ~isRunning
         /\ ~(handleDialogAction \/ handleDialogClose \/ resetTimer))
        => /\ showDialog'
           /\ timerState' = timerState
           /\ ~isRunning'
           /\ fired' = fired
           /\ lastNote' = lastNote
           /\ entries' = entries ]_vars

(* ---------- progress ring ---------- *)
(* the quotient n / d of two integers as JavaScript computes it: a division
   by 0 gives NaN, Infinity or -Infinity; a finite quotient is kept as a
   fraction with a positive denominator *)
Quotient(n, d) ==
  IF d = 0
    THEN [kind |-> IF n = 0 THEN "NaN" ELSE IF n > 0 THEN "Infinity" ELSE "-Infinity",
          num |-> 0, den |-> 1]
    ELSE [kind |-> "finite",
          num |-> IF d < 0 THEN 0 - n ELSE n,
          den |-> IF d < 0 THEN 0 - d ELSE d]

PercentFull == 100

(* getProgressPercentage in the render r; the factor 100 is kept in the
   numerator *)
getProgressPercentage(r) ==
  IF r.timerState = "idle"
    THEN Quotient(0, 1)
    ELSE LET totalTime == IF r.timerState = "working" THEN workSeconds(r.settings)
                                                     ELSE restSeconds(r.settings)
             q == Quotient(totalTime - r.timeLeft, totalTime)
         IN [q EXCEPT !.num = @ * PercentFull]

SameNumber(a, b) ==
  /\ a.kind = "finite"
  /\ b.kind = "finite"
  /\ a.num * b.den = b.num * a.den

InPercentRange(a) ==
  /\ a.kind = "finite"
  /\ 0 <= a.num
  /\ a.num <= PercentFull * a.den

(* C13: the progress is 0 while idle, lies within 0..100 in every state, and
   is computed from the phase length of the moment the phase was armed: a
   settings mutation while a phase is armed leaves it as it was. *)
C13_ProgressFromArmedTotal ==
  [][ /\ timerState' = "idle" => getProgressPercentage(Render') = Quotient(0, 1)
      /\ InPercentRange(getProgressPercentage(Render'))
      /\ (setSettings /\ timerState # "idle")
           => SameNumber(getProgressPercentage(Render), getProgressPercentage(Render')) ]_vars

(* C14: pause while working or resting only stops the clock: the phase,
   timeLeft and the reminder stay as they are and the interval is disarmed;
   the interval callback never runs while the session is not running; start
   while working or resting sets running again with the same phase and the
   same timeLeft, without arming the phase anew. *)
C14_PauseKeepsPhase ==
  [][ /\ (pauseTimer /\ timerState # "idle")
          => /\ ~isRunning'
             /\ ~intervalRef'
             /\ UNCHANGED <<timerState, timeLeft, showDialog, dialogType, reminderCount,
                            maxReminders, chains, fired, entries, lastNote>>
      /\ Tick => isRunning
      /\ ~isRunning' => ~intervalRef'
      /\ (startTimer /\ timerState # "idle")
          => /\ isRunning'
             /\ UNCHANGED <<timerState, timeLeft, showDialog, dialogType, reminderCount,
                            maxReminders, chains, fired, entries, lastNote>> ]_vars

(* resumed after a pause in the middle of the work phase *)
C14_Witness ==
  /\ last = [op |-> "start", active |-> FALSE]
  /\ timerState = "working"
  /\ edits = 0
  /\ 0 < timeLeft
  /\ timeLeft < workSeconds(settings)
  /\ isRunning
  /\ intervalRef

(* C15: at most one deferred reminder callback is pending at any time. *)
C15_AtMostOnePendingRecheck ==
  Len(chains) <= 1

(* ---------- convertToSeconds over every unit ---------- *)
(* the idle component with a duration of at least 1 in each of the three
   units, and the handlers that arm a phase with convertToSeconds, taken as
   commands; the clock does not run here *)
ConvertInputs ==
  [workDuration : 1 .. MaxConvertDuration, workUnit : TimeUnits,
   restDuration : 1 .. MaxConvertDuration, restUnit : TimeUnits,
   workReminders : {1}, restReminders : {1}]

InitConvert ==
  /\ settings \in ConvertInputs
  /\ timerState = "idle"
  /\ timeLeft = 0
  /\ isRunning = FALSE
  /\ showDialog = FALSE
  /\ dialogType = "work"
  /\ reminderCount = 0
  /\ showSettings = TRUE
  /\ intervalRef = FALSE
  /\ chains = << >>
  /\ maxReminders = 0
  /\ fired = 0
  /\ entries = 0
  /\ lastNote = NoNote
  /\ last = [op |-> "init", active |-> FALSE]
  /\ edits = 0

NextConvert ==
  \/ startTimer
  \/ handleDialogAction
  \/ resetTimer

SpecConvert == InitConvert /\ [][NextConvert]_vars

(* C16: for a duration d >= 1, convertToSeconds gives d * 3600 for hours,
   d * 60 for minutes and d for seconds: start from idle arms exactly that
   many seconds of work, acknowledge of a work reminder that many of rest. *)
C16_ConvertToSeconds ==
  [][ /\ (startTimer /\ timerState = "idle" /\ settings.workDuration >= 1)
          => /\ settings.workUnit = "hours" => timeLeft' = settings.workDuration * 3600
             /\ settings.workUnit = "minutes" => timeLeft' = settings.workDuration * 60
             /\ settings.workUnit = "seconds" => timeLeft' = settings.workDuration
      /\ (handleDialogAction /\ dialogType = "work" /\ settings.restDuration >= 1)
          => /\ settings.restUnit = "hours" => timeLeft' = settings.restDuration * 3600
             /\ settings.restUnit = "minutes" => timeLeft' = settings.restDuration * 60
             /\ settings.restUnit = "seconds" => timeLeft' = settings.restDuration ]_vars

C16_Witness ==
  /\ last.op = "start"
  /\ timerState = "working"
  /\ settings.workUnit = "hours"
  /\ settings.workDuration > 1
  /\ timeLeft = settings.workDuration * 3600

(* ---------- loading the saved settings ---------- *)
(* a field of the parsed object: absent, a number or a string *)
Undefined == [t |-> "undefined", n |-> 0, s |-> ""]
Number(n) == [t |-> "number", n |-> n, s |-> ""]
String(s) == [t |-> "string", n |-> 0, s |-> s]

(* JavaScript truthiness of such a field *)
Truthy(x) ==
  CASE x.t = "undefined" -> FALSE
    [] x.t = "number" -> x.n # 0
    [] x.t = "string" -> x.s # ""

(* field || fallback, for a number field and for a string field *)
NumberOr(x, fallback) == IF Truthy(x) THEN x.n ELSE fallback
StringOr(x, fallback) == IF Truthy(x) THEN x.s ELSE fallback

StoredDurations == {Undefined, Number(0), Number(-1), Number(MaxDuration)}
StoredUnits == {Undefined, String(""), String("days"), String("seconds")}
StoredReminders == {Undefined, Number(0), Number(-1), Number(1), Number(MaxReminders)}

(* what localStorage.getItem and JSON.parse can produce: no item, a text that
   does not parse, the value null, or an object *)
StoredItems ==
  {[kind |-> k, fields |-> << >>] : k \in {"none", "malformed", "null"}}
    \cup {[kind |-> "object", fields |-> f] :
            f \in [workDuration : StoredDurations, workUnit : StoredUnits,
                   restDuration : StoredDurations, restUnit : StoredUnits,
                   workReminders : StoredReminders, restReminders : StoredReminders]}

DefaultSettings ==
  [workDuration |-> DefaultWorkDuration, workUnit |-> "minutes",
   restDuration |-> DefaultRestDuration, restUnit |-> "minutes",
   workReminders |-> DefaultReminders, restReminders |-> DefaultReminders]

ParsedSettings(f) ==
  [workDuration |-> NumberOr(f.workDuration, DefaultWorkDuration),
   workUnit |-> StringOr(f.workUnit, "minutes"),
   restDuration |-> NumberOr(f.restDuration, DefaultRestDuration),
   restUnit |-> StringOr(f.restUnit, "minutes"),
   workReminders |-> NumberOr(f.workReminders, DefaultReminders),
   restReminders |-> NumberOr(f.restReminders, DefaultReminders)]

InitMounted ==
  /\ settings = DefaultSettings
  /\ timerState = "idle"
  /\ timeLeft = 0
  /\ isRunning = FALSE
  /\ showDialog = FALSE
  /\ dialogType = "work"
  /\ reminderCount = 0
  /\ showSettings = TRUE
  /\ intervalRef = FALSE
  /\ chains = << >>
  /\ maxReminders = 0
  /\ fired = 0
  /\ entries = 0
  /\ lastNote = NoNote
  /\ last = [op |-> "mount", active |-> FALSE]
  /\ edits = 0

(* the load effect, deps []: it runs once after the first render.  With no
   item the state is left alone; a text that does not parse and the value
   null throw inside the try block, and the catch leaves the state alone *)
loadSettings ==
  /\ last.op = "mount"
  /\ \E item \in StoredItems :
       settings' = IF item.kind = "object" THEN ParsedSettings(item.fields) ELSE settings
  /\ last' = [op |-> "load", active |-> FALSE]
  /\ UNCHANGED <<timerState, timeLeft, isRunning, showDialog, dialogType, reminderCount,
                 showSettings, intervalRef, chains, maxReminders, fired, entries,
                 lastNote, edits>>

SpecLoad == InitMounted /\ [][loadSettings]_vars

(* C17: after the load both durations are at least 1, both units are one of
   hours, minutes and seconds, and both reminder limits are at least 1,
   whatever was stored. *)
C17_LoadedSettingsAreValid ==
  last.op = "load"
    => /\ settings.workDuration >= 1
       /\ settings.restDuration >= 1
       /\ settings.workUnit \in TimeUnits
       /\ settings.restUnit \in TimeUnits
       /\ settings.workReminders >= 1
       /\ settings.restReminders >= 1

(* C18: repeats come 15 seconds apart, counted from the expiry.  The timer
   the expiry effect arms has a delay of 15000 ms, so the step in which its
   callback runs is the instant 15 seconds after the expiry: with a limit
   above 1 and the reminder still open, the second notification is played in
   that step. *)
C18_RepeatFifteenSecondsAfterExpiry ==
  [][ ( /\ playNextReminder
        /\ showDialog
        /\ maxReminders > 1
        /\ fired = 1
        /\ Head(chains).ref
        /\ Head(chains).currentCount = 0 )
        => fired' = 2 ]_vars

(* C19: while the reminder is active, reminderCount is the number of
   notifications played for it minus 1, it lies within 0 .. limit - 1, and
   no more notifications than the captured limit have been played. *)
C19_AttemptCountsNotifications ==
  showDialog
    => /\ reminderCount = fired - 1
       /\ 0 <= reminderCount
       /\ reminderCount <= maxReminders - 1
       /\ fired <= maxReminders

(* C20: a running phase reaches its reminder: the session is never left
   working or resting and running with timeLeft = 0 and no reminder active. *)
C20_RunningPhaseReachesReminder ==
  ~(timerState # "idle" /\ isRunning /\ timeLeft = 0 /\ ~showDialog)

(* C21: while idle, timeLeft is 0, the session is not running and no
   reminder is active (dialog hidden, reminderCount 0); idle is left only by
   start, which leads to working with timeLeft equal to the work duration in
   seconds, running. *)
C21_IdleIsQuiescent ==
  [][ /\ timerState' = "idle"
          => /\ timeLeft' = 0
             /\ ~isRunning'
             /\ ~showDialog'
             /\ reminderCount' = 0
      /\ (timerState = "idle" /\ timerState' # "idle")
          => /\ startTimer
             /\ timerState' = "working"
             /\ timeLeft' = workSeconds(settings)
             /\ isRunning' ]_vars

(* C22: whenever the reminder is active its kind matches the phase (work
   with working, rest with resting); acknowledge of an active reminder
   always changes the phase; and a cue played for the active reminder is of
   the kind of the phase that expired. *)
C22_DialogTypeMatchesPhase ==
  [][ /\ showDialog'
          => \/ (dialogType' = "work" /\ timerState' = "working")
             \/ (dialogType' = "rest" /\ timerState' = "resting")
      /\ (handleDialogAction /\ showDialog)
          => /\ timerState = "working" => timerState' = "resting"
             /\ timerState = "resting" => timerState' = "working"
      /\ (showDialog' /\ lastNote'.live) => lastNote'.kind = dialogType' ]_vars

(* back in the work phase after the rest reminder was acknowledged *)
C22_Witness ==
  /\ last = [op |-> "acknowledge", active |-> TRUE]
  /\ timerState = "working"
  /\ lastNote = [kind |-> "rest", live |-> TRUE]
  /\ ~showDialog
  /\ isRunning

====
